---- MODULE Spec2Model ----
(***************************************************************************)
(* Batch API runner (src/app.py): the Streamlit page.  An uploaded table   *)
(* with a response_json column is parsed and shown (viewer mode); one      *)
(* without it needs an id column and offers the batch (runner mode).  In   *)
(* the batch one fetch_data task per input row is submitted to a           *)
(* ThreadPoolExecutor, the main thread collects the futures as they        *)
(* complete, merges each outcome with its row and the fields extracted by  *)
(* parse_extraction_data, and appends the merged record to results_list.   *)
(*                                                                         *)
(* The HTTP side is requests + urllib3: session.get drives urllib3's       *)
(* urlopen retry loop with the Retry object built by                       *)
(* get_session_with_retries.  One HttpAttempt step is one HTTP attempt;    *)
(* the endpoint's answer to an attempt is a nondeterministic choice.       *)
(* Redirects are outside the modelled endpoint: every response is final.   *)
(***************************************************************************)
EXTENDS Integers, Sequences, FiniteSets, TLC

(***************************************************************************)
(* Bounds of the model.                                                    *)
(***************************************************************************)
MaxRows == 3        \* rows of the uploaded table
MaxWorkers == 2     \* the slider offers 1..20; the model 1..MaxWorkers
MaxRetries == 2     \* retry counts a session is built for in FetchSpec
MaxPageRows == 2    \* rows of the tables of PageSpec and ParseSpec

(***************************************************************************)
(* Python values: None, str, numbers, list, dict.  A dict is the sequence  *)
(* of its <<key, value>> items in insertion order.                         *)
(***************************************************************************)
PyNone == [t |-> "none"]
PyStr(s) == [t |-> "str", v |-> s]
PyNum(n) == [t |-> "num", v |-> n]
PyNaN == [t |-> "nan"]
PyList(xs) == [t |-> "list", v |-> xs]
PyDict(items) == [t |-> "dict", v |-> items]

isdict(x) == x.t = "dict"
isstr(x) == x.t = "str"

\* Python truthiness of a value, as `if extraction_block and ...` tests it
truthy(x) ==
    CASE x.t = "none" -> FALSE
      [] x.t = "str"  -> x.v # ""
      [] x.t = "num"  -> x.v # 0
      [] x.t = "nan"  -> TRUE
      [] x.t = "list" -> Len(x.v) > 0
      [] x.t = "dict" -> Len(x.v) > 0

\* dict.get(key, default)
dict_get(d, key, default) ==
    IF \E i \in 1..Len(d.v) : d.v[i][1] = key
    THEN LET i == CHOOSE j \in 1..Len(d.v) : d.v[j][1] = key IN d.v[i][2]
    ELSE default

(***************************************************************************)
(* JSON.  json_dumps writes a value the way json.dumps does by default     *)
(* (", " and ": " separators).  json_loads decodes the texts of the        *)
(* model's universe: the canonical text of every document and the other    *)
(* spellings listed in Spellings; any other text raises ValueError.        *)
(***************************************************************************)
RECURSIVE json_dumps(_)
RECURSIVE dumps_items(_)
RECURSIVE dumps_elems(_)
dumps_items(items) ==
    IF Len(items) = 0 THEN ""
    ELSE "\"" \o items[1][1] \o "\": " \o json_dumps(items[1][2])
         \o (IF Len(items) > 1 THEN ", " \o dumps_items(Tail(items)) ELSE "")
dumps_elems(xs) ==
    IF Len(xs) = 0 THEN ""
    ELSE json_dumps(xs[1])
         \o (IF Len(xs) > 1 THEN ", " \o dumps_elems(Tail(xs)) ELSE "")
json_dumps(x) ==
    CASE x.t = "none" -> "null"
      [] x.t = "str"  -> "\"" \o x.v \o "\""
      [] x.t = "num"  -> ToString(x.v)
      [] x.t = "nan"  -> "NaN"
      [] x.t = "list" -> "[" \o dumps_elems(x.v) \o "]"
      [] x.t = "dict" -> "{" \o dumps_items(x.v) \o "}"

\* the documents of the model's universe
DocFull ==
    PyDict(<< <<"mobile_number", PyStr("555")>>,
              <<"extraction", PyDict(<< <<"extracted_data",
                    PyDict(<< <<"main_disposition", PyStr("A")>>,
                              <<"sub_disposition", PyStr("B")>> >>)>> >>)>>,
              <<"conversation_time", PyStr("2024-01-01")>> >>)
DocNoExtraction == PyDict(<< <<"mobile_number", PyStr("555")>> >>)
DocBadExtraction ==
    PyDict(<< <<"extraction", PyStr("x")>>,
              <<"conversation_time", PyStr("2024-01-01")>> >>)
DocBadExtracted ==
    PyDict(<< <<"mobile_number", PyStr("555")>>,
              <<"extraction", PyDict(<< <<"extracted_data", PyList(<<PyNum(1)>>)>> >>)>> >>)
\* classification keys everywhere but under extraction.extracted_data
DocMisplaced ==
    PyDict(<< <<"main_disposition", PyStr("T")>>,
              <<"sub_disposition", PyStr("U")>>,
              <<"extraction", PyDict(<< <<"main_disposition", PyStr("V")>>,
                                        <<"sub_disposition", PyStr("W")>> >>)>>,
              <<"extracted_data",
                PyDict(<< <<"main_disposition", PyStr("X")>> >>)>>,
              <<"conversation_time", PyStr("2024-01-01")>> >>)
\* one classification key only, and no top-level field
DocOnlyMain ==
    PyDict(<< <<"extraction", PyDict(<< <<"extracted_data",
                    PyDict(<< <<"main_disposition", PyStr("A")>> >>)>> >>)>> >>)
DocEmptyExtracted ==
    PyDict(<< <<"mobile_number", PyNum(7)>>,
              <<"extraction",
                PyDict(<< <<"extracted_data", PyDict(<< >>)>> >>)>> >>)
DocNullExtraction ==
    PyDict(<< <<"extraction", PyNone>>,
              <<"conversation_time", PyStr("2024-01-01")>> >>)
JsonDocs ==
    { DocFull, DocNoExtraction, DocBadExtraction, DocBadExtracted,
      PyDict(<< >>), PyNone, PyNum(7), PyNaN, PyList(<<PyNum(1)>>), PyStr("nan"),
      DocMisplaced, DocOnlyMain, DocEmptyExtracted, DocNullExtraction }

\* the compact spelling of DocFull, as a server sends it
TextFullCompact ==
    "{\"mobile_number\":\"555\",\"extraction\":{\"extracted_data\":{\"main_disposition\":\"A\",\"sub_disposition\":\"B\"}},\"conversation_time\":\"2024-01-01\"}"
Spellings ==
    { <<TextFullCompact, DocFull>>,
      <<" null ", PyNone>>,
      <<"[1]", PyList(<<PyNum(1)>>)>>,
      <<"{\"mobile_number\":\"555\"}", DocNoExtraction>> }

\* every text that decodes, with the document it decodes to
Decodable == { <<json_dumps(d), d>> : d \in JsonDocs } \cup Spellings

\* json.loads: [ok |-> TRUE, val |-> value], or ok = FALSE for ValueError
json_loads(s) ==
    IF \E p \in Decodable : p[1] = s
    THEN [ok |-> TRUE, val |-> (CHOOSE p \in Decodable : p[1] = s)[2]]
    ELSE [ok |-> FALSE, val |-> PyNone]

\* str.strip() of the texts of the universe leaves nothing
BlankTexts == {"", " ", "  ", "\n", "\t"}
\* str.lower() of the text is 'nan'
NanTexts == {"nan", "Nan", "nAn", "naN", "NAn", "NaN", "nAN", "NAN"}

(***************************************************************************)
(* parse_extraction_data                                                   *)
(***************************************************************************)
ParsedDefaults ==
    [mobile_number |-> PyNone, main_disposition |-> PyNone,
     sub_disposition |-> PyNone, updated_at |-> PyNone]

\* what a call evaluates to when it raises instead of returning
Raised(cls) == [raised |-> cls]

\* lines 73-87 with the dispositions read from the top level of data
extract_from_dict_flat(data) ==
    IF ~isdict(data) THEN Raised("AttributeError")
    ELSE [mobile_number |-> dict_get(data, "mobile_number", PyNone),
          main_disposition |-> dict_get(data, "main_disposition", PyNone),
          sub_disposition |-> dict_get(data, "sub_disposition", PyNone),
          updated_at |-> dict_get(data, "conversation_time", PyNone)]

\* lines 73-87; data.get raises AttributeError when data is not a dict
extract_from_dict(data) ==
    IF ~isdict(data) THEN Raised("AttributeError") ELSE
    LET extraction_block == dict_get(data, "extraction", PyDict(<< >>))
        extracted_data ==
            IF truthy(extraction_block) /\ isdict(extraction_block)
            THEN dict_get(extraction_block, "extracted_data", PyDict(<< >>))
            ELSE PyNone
        found == truthy(extracted_data) /\ isdict(extracted_data)
    IN  [mobile_number |-> dict_get(data, "mobile_number", PyNone),
         main_disposition |->
             IF found THEN dict_get(extracted_data, "main_disposition", PyNone)
             ELSE PyNone,
         sub_disposition |->
             IF found THEN dict_get(extracted_data, "sub_disposition", PyNone)
             ELSE PyNone,
         updated_at |-> dict_get(data, "conversation_time", PyNone)]

\* the function without the isinstance test of lines 61-64
parse_extraction_data_unchecked(json_input) ==
    IF isstr(json_input)
    THEN IF json_input.v \in BlankTexts \/ json_input.v \in NanTexts
         THEN ParsedDefaults
         ELSE LET loaded == json_loads(json_input.v)
              IN  IF loaded.ok
                  THEN extract_from_dict(loaded.val)
                  ELSE ParsedDefaults
    ELSE IF isdict(json_input)
    THEN extract_from_dict(json_input)
    ELSE ParsedDefaults

\* lines 34-87
parse_extraction_data(json_input) ==
    IF isstr(json_input)
    THEN IF json_input.v \in BlankTexts \/ json_input.v \in NanTexts
         THEN ParsedDefaults
         ELSE LET loaded == json_loads(json_input.v)
              IN  IF loaded.ok /\ isdict(loaded.val)
                  THEN extract_from_dict(loaded.val)
                  ELSE ParsedDefaults
    ELSE IF isdict(json_input)
    THEN extract_from_dict(json_input)
    ELSE ParsedDefaults

(***************************************************************************)
(* The endpoint: what one HTTP attempt can meet.  A response carries its   *)
(* status, whether it has a Retry-After header, and its body text; an      *)
(* error names the urllib3 exception the attempt ended in.                 *)
(***************************************************************************)
Resp(s, ra, body) ==
    [kind |-> "response", status |-> s, retry_after |-> ra, text |-> body, err |-> ""]
Fail(cls) ==
    [kind |-> "error", status |-> 0, retry_after |-> FALSE, text |-> "", err |-> cls]

Endpoint ==
    { Resp(200, FALSE, TextFullCompact),
      Resp(404, FALSE, "not json"),
      Resp(429, TRUE, ""),
      Resp(500, FALSE, "null"),
      Resp(502, FALSE, ""),
      Resp(504, FALSE, "not json"),
      Fail("NewConnectionError"),
      Fail("ReadTimeoutError") }

(***************************************************************************)
(* get_session_with_retries: the Retry object mounted on the session.      *)
(* raise_on_status and respect_retry_after_header keep urllib3's defaults  *)
(* (both True); redirect, status and other stay None.                      *)
(***************************************************************************)
\* a forcelist that also retries 404
status_forcelist_with_404 == {404, 500, 502, 504}

status_forcelist == {500, 502, 504}
RETRY_AFTER_STATUS_CODES == {413, 429, 503}

get_session_with_retries(n) == [total |-> n, read |-> n, connect |-> n]

\* urllib3 Retry.is_retry for a GET
is_retry(retry, response) ==
    \/ response.status \in status_forcelist
    \/ /\ retry.total # 0
       /\ response.retry_after
       /\ response.status \in RETRY_AFTER_STATUS_CODES

\* is_exhausted that also counts a counter that has just reached 0
is_exhausted_at_zero(retry) ==
    \E c \in {retry.total, retry.connect, retry.read} : c <= 0

\* urllib3 Retry.is_exhausted: the counters that are None or 0 are left out
is_exhausted(retry) ==
    \E c \in {retry.total, retry.connect, retry.read} : c # 0 /\ c < 0

\* increment that leaves the total alone
increment_keeps_total(retry, ev) ==
    [total   |-> retry.total,
     connect |-> IF ev.kind = "error" /\ ev.err = "NewConnectionError"
                 THEN retry.connect - 1 ELSE retry.connect,
     read    |-> IF ev.kind = "error" /\ ev.err = "ReadTimeoutError"
                 THEN retry.read - 1 ELSE retry.read]

\* urllib3 Retry.increment, before its exhaustion test
increment(retry, ev) ==
    [total   |-> retry.total - 1,
     connect |-> IF ev.kind = "error" /\ ev.err = "NewConnectionError"
                 THEN retry.connect - 1 ELSE retry.connect,
     read    |-> IF ev.kind = "error" /\ ev.err = "ReadTimeoutError"
                 THEN retry.read - 1 ELSE retry.read]

\* the requests exception HTTPAdapter.send raises for an exhausted Retry
adapter_exception(ev) ==
    CASE ev.kind = "response" -> "RetryError"
      [] ev.err = "SSLError"  -> "SSLError"
      [] OTHER                -> "ConnectionError"

\* the cause urllib3's MaxRetryError carries
cause_text(ev) ==
    IF ev.kind = "response"
    THEN "ResponseError('too many " \o ToString(ev.status) \o " error responses')"
    ELSE ev.err

\* str(e) of the exception fetch_data catches
exception_text(url, ev) ==
    "Max retries exceeded with url: " \o url \o " (Caused by " \o cause_text(ev) \o ")"

(***************************************************************************)
(* One attempt of urlopen under the Retry object: the attempt's answer     *)
(* either is returned, or is retried with the incremented Retry, or ends   *)
(* session.get in a requests exception.                                    *)
(***************************************************************************)
urlopen_attempt(retry, ev) ==
    IF ev.kind = "response" /\ ~is_retry(retry, ev)
    THEN [next |-> "return", retry |-> retry]
    ELSE IF is_exhausted(increment(retry, ev))
    THEN [next |-> "raise", retry |-> increment(retry, ev)]
    ELSE [next |-> "again", retry |-> increment(retry, ev)]

(***************************************************************************)
(* fetch_data                                                              *)
(***************************************************************************)
url_part_1 == "https://abc.com/something/"
url_part_2 == "?params=1"

\* lines 93-101: the URL and the result dict before the request
fetch_data_begin(base_url_pre, row_id, base_url_post) ==
    [id |-> row_id,
     full_url |-> base_url_pre \o row_id \o base_url_post,
     status_code |-> 0,
     response_json |-> "",
     error |-> ""]

\* lines 108-113: the body, re-serialised when it decodes as JSON
response_body(response) ==
    LET data == json_loads(response.text)
    IN  IF data.ok THEN json_dumps(data.val) ELSE response.text

\* the response branch without line 106
fetch_data_response_no_status(result, response) ==
    [result EXCEPT !.response_json = response_body(response)]

\* lines 105-113: session.get returned a response
fetch_data_response(result, response) ==
    [result EXCEPT !.status_code = response.status,
                   !.response_json = response_body(response)]

\* the except branch without line 116
fetch_data_exception_no_text(result, ev) ==
    [result EXCEPT !.status_code = -1]

\* lines 115-117: session.get raised a RequestException
fetch_data_exception(result, ev) ==
    [result EXCEPT !.error = exception_text(result.full_url, ev),
                   !.status_code = -1]

(***************************************************************************)
(* The uploaded table: the first n rows of a sheet whose rows carry the id *)
(* column (a string) and one passthrough column.  The first two rows share *)
(* their id.                                                               *)
(***************************************************************************)
SheetRow(i) ==
    [id   |-> IF i <= 2 THEN "7" ELSE ToString(5 + i),
     name |-> IF i % 2 = 1 THEN "a" ELSE "b"]

\* the table of the sheet's first n rows
Frame(n) == [i \in 1..n |-> SheetRow(i)]

\* {**a, **b}: b's value wins on a shared key
Merge(a, b) ==
    [k \in DOMAIN a \cup DOMAIN b |-> IF k \in DOMAIN b THEN b[k] ELSE a[k]]

(***************************************************************************)
(* State.                                                                  *)
(***************************************************************************)
VARIABLES
    rows,             \* df: the uploaded rows, in order
    num_workers,      \* the slider's value
    retries,          \* the argument get_session_with_retries is called with
    pc,               \* the main thread: loaded, viewer, no_id, ready, submit,
                      \* collect, done
    session,          \* the Retry object mounted on the session
    next_row,         \* the row df.iterrows() yields next
    future,           \* state of each row's future
    work_queue,       \* the executor's queue of pending work items
    num_threads,      \* worker threads the executor has started
    result,           \* fetch_data's result dict of each started task
    retry,            \* the Retry object of each running request
    history,          \* what each row's HTTP attempts met, in order
    yielded,          \* the futures as_completed has yielded
    results_list,
    completed_count,
    columns,          \* df.columns, in order
    errors,           \* how many times st.error has reported the missing id
    parsed_df,        \* viewer mode: parse_extraction_data of each row's cell
    final_view_df,    \* viewer mode: the columns of the displayed table
    progress_bar,     \* << >> before st.progress, then <<completed, total>>
    status_text,      \* the <<completed_count, total_rows>> texts shown so far
    result_df         \* the columns of the final table, in order

\* what the batch never touches
page_vars == << columns, errors, parsed_df, final_view_df >>

vars ==
    << rows, num_workers, retries, pc, session, next_row, future, work_queue,
       num_threads, result, retry, history, yielded, results_list,
       completed_count, page_vars, progress_bar, status_text, result_df >>

Tasks == 1..Len(rows)
running == { i \in Tasks : future[i] = "running" }

NoSession == [total |-> 0, read |-> 0, connect |-> 0]

\* a file of the given columns and rows is uploaded
Uploaded(cols, frame, workers, n) ==
    /\ columns = cols
    /\ rows = frame
    /\ num_workers = workers
    /\ retries = n
    /\ pc = "loaded"
    /\ session = NoSession
    /\ next_row = 1
    /\ future = [i \in 1..Len(frame) |-> "unsubmitted"]
    /\ work_queue = << >>
    /\ num_threads = 0
    /\ result = [i \in 1..Len(frame) |-> PyNone]
    /\ retry = [i \in 1..Len(frame) |-> NoSession]
    /\ history = [i \in 1..Len(frame) |-> << >>]
    /\ yielded = {}
    /\ results_list = << >>
    /\ completed_count = 0
    /\ errors = 0
    /\ parsed_df = << >>
    /\ final_view_df = << >>
    /\ progress_bar = << >>
    /\ status_text = << >>
    /\ result_df = << >>

\* the sheet's columns
SheetColumns == << "id", "name" >>

\* the sheet's first rows are uploaded
Loaded(frame, workers, n) == Uploaded(SheetColumns, frame, workers, n)

\* the page calls get_session_with_retries(retries=0)
Init ==
    \E n \in 0..MaxRows : \E workers \in 1..MaxWorkers :
        Loaded(Frame(n), workers, 0)

(***************************************************************************)
(* Column order.  A dict keeps its keys in insertion order and a DataFrame *)
(* built from a list of dicts takes its columns in that order.             *)
(***************************************************************************)
Range(seq) == { seq[i] : i \in 1..Len(seq) }

\* lines 95-101: the keys of fetch_data's result, in order
ResultKeys == << "id", "full_url", "status_code", "response_json", "error" >>

\* lines 41-46: the keys of parse_extraction_data's result, in order
ParsedKeys ==
    << "mobile_number", "main_disposition", "sub_disposition", "updated_at" >>

\* the key order of {**a, **b}: a's keys, then the keys only b has
merge_keys(a, b) == a \o SelectSeq(b, LAMBDA c : c \notin Range(a))

\* line 273
priority_cols ==
    << "id", "status_code", "main_disposition", "sub_disposition",
       "updated_at", "full_url", "error", "response_json" >>

\* line 188
view_priority_cols ==
    << "id", "mobile_number", "main_disposition", "sub_disposition",
       "updated_at", "status_code" >>

\* lines 274-277 and 191-194: the priority columns that exist, then the rest
reorder(priority, cols) ==
    LET existing_priority == SelectSeq(priority, LAMBDA c : c \in Range(cols))
        remaining_cols ==
            SelectSeq(cols, LAMBDA c : c \notin Range(existing_priority))
    IN  existing_priority \o remaining_cols

\* line 270: the columns of pd.DataFrame(results_list)
DataFrame_columns ==
    IF results_list = << >> THEN << >>
    ELSE merge_keys(merge_keys(columns, ResultKeys), ParsedKeys)

\* line 238
total_rows == Len(rows)

(***************************************************************************)
(* The main thread.                                                        *)
(***************************************************************************)
\* a page that looks for the id column before it looks for response_json
RenderRunnerFirst ==
    /\ pc = "loaded"
    /\ IF "id" \in Range(columns)
       THEN /\ pc' = "ready"
            /\ UNCHANGED << errors, parsed_df, final_view_df >>
       ELSE IF "response_json" \in Range(columns)
       THEN /\ pc' = "viewer"
            /\ parsed_df' = [i \in 1..Len(rows) |->
                                 parse_extraction_data(rows[i].response_json)]
            /\ final_view_df' =
                   reorder(view_priority_cols,
                           merge_keys(columns, IF Len(rows) = 0 THEN << >>
                                               ELSE ParsedKeys))
            /\ UNCHANGED errors
       ELSE /\ pc' = "no_id"
            /\ errors' = errors + 1
            /\ UNCHANGED << parsed_df, final_view_df >>
    /\ UNCHANGED << rows, num_workers, retries, session, next_row, future,
                    work_queue, num_threads, result, retry, history, yielded,
                    results_list, completed_count, columns, progress_bar,
                    status_text, result_df >>

\* a page that offers the batch whether or not the table has an id column
RenderWithoutIdCheck ==
    /\ pc = "loaded"
    /\ IF "response_json" \in Range(columns)
       THEN /\ pc' = "viewer"
            /\ parsed_df' = [i \in 1..Len(rows) |->
                                 parse_extraction_data(rows[i].response_json)]
            /\ final_view_df' =
                   reorder(view_priority_cols,
                           merge_keys(columns, IF Len(rows) = 0 THEN << >>
                                               ELSE ParsedKeys))
            /\ UNCHANGED errors
       ELSE /\ pc' = "ready"
            /\ UNCHANGED << errors, parsed_df, final_view_df >>
    /\ UNCHANGED << rows, num_workers, retries, session, next_row, future,
                    work_queue, num_threads, result, retry, history, yielded,
                    results_list, completed_count, columns, progress_bar,
                    status_text, result_df >>

\* lines 171-229: the script runs on the uploaded table: viewer mode
\* (lines 174-207) when it has a response_json column, else runner mode,
\* which reports a missing id column (line 216) or offers the button
Render ==
    /\ pc = "loaded"
    /\ IF "response_json" \in Range(columns)
       THEN /\ pc' = "viewer"
            /\ parsed_df' = [i \in 1..Len(rows) |->
                                 parse_extraction_data(rows[i].response_json)]
            /\ final_view_df' =
                   reorder(view_priority_cols,
                           merge_keys(columns, IF Len(rows) = 0 THEN << >>
                                               ELSE ParsedKeys))
            /\ UNCHANGED errors
       ELSE IF "id" \notin Range(columns)
       THEN /\ pc' = "no_id"
            /\ errors' = errors + 1
            /\ UNCHANGED << parsed_df, final_view_df >>
       ELSE /\ pc' = "ready"
            /\ UNCHANGED << errors, parsed_df, final_view_df >>
    /\ UNCHANGED << rows, num_workers, retries, session, next_row, future,
                    work_queue, num_threads, result, retry, history, yielded,
                    results_list, completed_count, columns, progress_bar,
                    status_text, result_df >>

\* lines 231-240: the button is pressed
StartBatch ==
    /\ pc = "ready"
    /\ pc' = "submit"
    /\ results_list' = << >>
    /\ progress_bar' = << 0, 1 >>
    /\ status_text' = << >>
    /\ session' = get_session_with_retries(retries)
    /\ next_row' = 1
    /\ UNCHANGED << rows, num_workers, retries, future, work_queue, num_threads,
                    result, retry, history, yielded, completed_count,
                    page_vars, result_df >>

\* a pool that starts a thread for every submitted task
adjust_thread_count_unbounded(n) == n + 1

\* ThreadPoolExecutor._adjust_thread_count: a thread is started while there
\* are fewer than max_workers
adjust_thread_count(n) == IF n < num_workers THEN n + 1 ELSE n

\* lines 242-245: executor.submit for the next row
Submit ==
    /\ pc = "submit"
    /\ next_row <= Len(rows)
    /\ future' = [future EXCEPT ![next_row] = "pending"]
    /\ work_queue' = Append(work_queue, next_row)
    /\ num_threads' = adjust_thread_count(num_threads)
    /\ next_row' = next_row + 1
    /\ UNCHANGED << rows, num_workers, retries, pc, session, result, retry,
                    history, yielded, results_list, completed_count,
                    page_vars, progress_bar, status_text, result_df >>

\* lines 247-249: every row is submitted, the as_completed loop is entered
EnterLoop ==
    /\ pc = "submit"
    /\ next_row > Len(rows)
    /\ pc' = "collect"
    /\ completed_count' = 0
    /\ UNCHANGED << rows, num_workers, retries, session, next_row, future,
                    work_queue, num_threads, result, retry, history, yielded,
                    results_list, page_vars, progress_bar, status_text,
                    result_df >>

\* the texts a result's response_json can hold
ResponseTexts ==
    {""} \cup { ev.text : ev \in Endpoint } \cup { response_body(ev) : ev \in Endpoint }

\* parse_extraction_data of each of these texts, computed once
parsed_of == [s \in ResponseTexts |-> parse_extraction_data(PyStr(s))]

\* every future mapped to the first row
future_to_row_first(i) == rows[1]

\* every future mapped to the row the comprehension bound last
future_to_row_last(i) == rows[Len(rows)]

\* line 251: the row the future was submitted for
future_to_row(i) == rows[i]

\* a merge that leaves the input row out
combined_without_row(original_row, result_data, parsed_fields) ==
    Merge(result_data, parsed_fields)

\* a merge in which the input row's cells win
combined_row_wins(original_row, result_data, parsed_fields) ==
    Merge(Merge(result_data, parsed_fields), original_row)

\* line 258
combined(original_row, result_data, parsed_fields) ==
    Merge(Merge(original_row, result_data), parsed_fields)

\* a loop that leaves out the rows whose request raised
CollectDropErrors(i) ==
    /\ i \in Tasks
    /\ pc = "collect"
    /\ future[i] = "finished"
    /\ i \notin yielded
    /\ LET result_data == result[i]
           original_row == future_to_row(i)
           parsed_fields == parsed_of[result_data.response_json]
       IN  results_list' =
               IF result_data.status_code = -1 THEN results_list
               ELSE Append(results_list,
                           combined(original_row, result_data, parsed_fields))
    /\ completed_count' = completed_count + 1
    /\ progress_bar' = << completed_count + 1, total_rows >>
    /\ status_text' = Append(status_text, << completed_count + 1, total_rows >>)
    /\ yielded' = yielded \cup {i}
    /\ UNCHANGED << rows, num_workers, retries, pc, session, next_row, future,
                    work_queue, num_threads, result, retry, history,
                    page_vars, result_df >>

\* a loop that stops at the first row that did not end in a 2xx status
CollectAbortOnFailure(i) ==
    /\ i \in Tasks
    /\ pc = "collect"
    /\ future[i] = "finished"
    /\ i \notin yielded
    /\ LET result_data == result[i]
           original_row == future_to_row(i)
           parsed_fields == parsed_of[result_data.response_json]
       IN  /\ results_list' =
                 Append(results_list,
                        combined(original_row, result_data, parsed_fields))
           /\ pc' = IF result_data.status_code \in 200..299 THEN pc ELSE "done"
    /\ completed_count' = completed_count + 1
    /\ progress_bar' = << completed_count + 1, total_rows >>
    /\ status_text' = Append(status_text, << completed_count + 1, total_rows >>)
    /\ yielded' = yielded \cup {i}
    /\ UNCHANGED << rows, num_workers, retries, session, next_row, future,
                    work_queue, num_threads, result, retry, history,
                    page_vars, result_df >>

\* a loop that shows the count before it is incremented
CollectStaleCount(i) ==
    /\ i \in Tasks
    /\ pc = "collect"
    /\ future[i] = "finished"
    /\ i \notin yielded
    /\ LET result_data == result[i]
           original_row == future_to_row(i)
           parsed_fields == parsed_of[result_data.response_json]
       IN  results_list' =
               Append(results_list, combined(original_row, result_data, parsed_fields))
    /\ completed_count' = completed_count + 1
    /\ progress_bar' = << completed_count, total_rows >>
    /\ status_text' = Append(status_text, << completed_count, total_rows >>)
    /\ yielded' = yielded \cup {i}
    /\ UNCHANGED << rows, num_workers, retries, pc, session, next_row, future,
                    work_queue, num_threads, result, retry, history,
                    page_vars, result_df >>

\* lines 249-264: one iteration of the as_completed loop
Collect(i) ==
    /\ i \in Tasks
    /\ pc = "collect"
    /\ future[i] = "finished"
    /\ i \notin yielded
    /\ LET result_data == result[i]
           original_row == future_to_row(i)
           parsed_fields == parsed_of[result_data.response_json]
       IN  results_list' =
               Append(results_list, combined(original_row, result_data, parsed_fields))
    /\ completed_count' = completed_count + 1
    /\ progress_bar' = << completed_count + 1, total_rows >>
    /\ status_text' = Append(status_text, << completed_count + 1, total_rows >>)
    /\ yielded' = yielded \cup {i}
    /\ UNCHANGED << rows, num_workers, retries, pc, session, next_row, future,
                    work_queue, num_threads, result, retry, history,
                    page_vars, result_df >>

\* lines 264-277: as_completed is exhausted, the executor is shut down,
\* completion is reported and the final table is built and reordered
Finish ==
    /\ pc = "collect"
    /\ yielded = Tasks
    /\ pc' = "done"
    /\ progress_bar' = << 1, 1 >>
    /\ result_df' = reorder(priority_cols, DataFrame_columns)
    /\ UNCHANGED << rows, num_workers, retries, session, next_row, future,
                    work_queue, num_threads, result, retry, history, yielded,
                    results_list, completed_count, page_vars, status_text >>

(***************************************************************************)
(* The worker threads.                                                     *)
(***************************************************************************)
\* an idle worker thread takes the oldest work item and enters fetch_data
WorkerTake ==
    /\ work_queue # << >>
    /\ Cardinality(running) < num_threads
    /\ LET i == Head(work_queue)
       IN  /\ future' = [future EXCEPT ![i] = "running"]
           /\ result' = [result EXCEPT
                  ![i] = fetch_data_begin(url_part_1, rows[i].id, url_part_2)]
           /\ retry' = [retry EXCEPT ![i] = session]
    /\ work_queue' = Tail(work_queue)
    /\ UNCHANGED << rows, num_workers, retries, pc, session, next_row,
                    num_threads, history, yielded, results_list, completed_count,
                    page_vars, progress_bar, status_text, result_df >>

\* a fetch_data that appends its own result to results_list and counts it
HttpAttemptAppends(i) ==
    /\ i \in Tasks
    /\ future[i] = "running"
    /\ Len(history[i]) <= MaxRetries + 1
    /\ \E ev \in Endpoint :
         LET step == urlopen_attempt(retry[i], ev)
             ended == CASE step.next = "return" -> fetch_data_response(result[i], ev)
                        [] step.next = "raise"  -> fetch_data_exception(result[i], ev)
                        [] OTHER                -> result[i]
         IN  /\ history' = [history EXCEPT ![i] = Append(@, ev)]
             /\ retry' = [retry EXCEPT ![i] = step.retry]
             /\ result' = [result EXCEPT ![i] = ended]
             /\ future' = [future EXCEPT ![i] =
                    IF step.next = "again" THEN "running" ELSE "finished"]
             /\ results_list' =
                    IF step.next = "again" THEN results_list
                    ELSE Append(results_list, Merge(rows[i], ended))
             /\ completed_count' =
                    IF step.next = "again" THEN completed_count
                    ELSE completed_count + 1
    /\ UNCHANGED << rows, num_workers, retries, pc, session, next_row,
                    work_queue, num_threads, yielded, page_vars, progress_bar,
                    status_text, result_df >>

\* one HTTP attempt of session.get (line 105) and, when it was the last,
\* the rest of fetch_data
HttpAttempt(i) ==
    /\ i \in Tasks
    /\ future[i] = "running"
    /\ Len(history[i]) <= MaxRetries + 1
    /\ \E ev \in Endpoint :
         LET step == urlopen_attempt(retry[i], ev)
         IN  /\ history' = [history EXCEPT ![i] = Append(@, ev)]
             /\ retry' = [retry EXCEPT ![i] = step.retry]
             /\ result' = [result EXCEPT ![i] =
                    CASE step.next = "return" -> fetch_data_response(@, ev)
                      [] step.next = "raise"  -> fetch_data_exception(@, ev)
                      [] OTHER                -> @]
             /\ future' = [future EXCEPT ![i] =
                    IF step.next = "again" THEN "running" ELSE "finished"]
    /\ UNCHANGED << rows, num_workers, retries, pc, session, next_row,
                    work_queue, num_threads, yielded, results_list,
                    completed_count, page_vars, progress_bar, status_text,
                    result_df >>

Next ==
    \/ Render
    \/ StartBatch
    \/ Submit
    \/ EnterLoop
    \/ \E i \in Tasks : Collect(i)
    \/ Finish
    \/ WorkerTake
    \/ \E i \in Tasks : HttpAttempt(i)

Spec == Init /\ [][Next]_vars

\* a step of the running batch: of the main thread once the button is
\* pressed, or of a worker thread
BatchStep ==
    \/ Submit
    \/ EnterLoop
    \/ \E i \in Tasks : Collect(i)
    \/ Finish
    \/ WorkerTake
    \/ \E i \in Tasks : HttpAttempt(i)

\* The main thread and the worker threads are scheduled and every HTTP
\* attempt ends (timeout=200 on line 105): the batch does not stop while one
\* of its steps is possible.  Pressing the button is the user's choice and
\* is not forced.
Fairness == WF_vars(BatchStep)

FairSpec == Spec /\ Fairness

\* fetch_data under a session built for any retry count: a one-row table and
\* get_session_with_retries(retries=n) for n in 0..MaxRetries
FetchInit ==
    \E n \in 0..MaxRetries : Loaded(Frame(1), 1, n)

FetchSpec == FetchInit /\ [][Next]_vars

(***************************************************************************)
(* The page under tables of every shape: runner tables whose columns       *)
(* collide with the keys of the result and of the parsed fields, tables    *)
(* without an id column, and tables with a response_json column.           *)
(***************************************************************************)
\* the cell of row i in a column of the sheet; cell is what the row holds
\* under response_json.  Columns named like a parsed field hold Python
\* values, as the parsed fields do.
PageCell(c, i, cell) ==
    CASE c = "id" -> SheetRow(i).id
      [] c = "name" -> SheetRow(i).name
      [] c = "response_json" -> cell
      [] c = "status_code" -> 7
      [] c = "error" -> "old error"
      [] c = "full_url" -> "ftp://old"
      [] c = "mobile_number" -> PyStr("999")
      [] c = "main_disposition" -> PyStr("old")
      [] c = "sub_disposition" -> PyNone
      [] c = "updated_at" -> PyStr("1999-12-31")
      [] OTHER -> "x"

PageRow(cols, i, cell) == [c \in Range(cols) |-> PageCell(c, i, cell)]

RunnerColumns ==
    { << "id", "name" >>,
      << "name", "mobile_number", "error", "id" >>,
      << "id", "status_code", "note", "full_url", "main_disposition",
         "updated_at" >> }
NoIdColumns == { << "name" >>, << "name", "error" >> }
ViewerColumns ==
    { << "response_json" >>,
      << "id", "response_json" >>,
      << "status_code", "response_json", "id", "name" >> }
PageColumns == RunnerColumns \cup NoIdColumns \cup ViewerColumns

\* what read_csv and read_excel leave in a cell of response_json: NaN for an
\* empty cell, a number, or the cell's text
ViewCells == { PyNaN, PyNum(7), PyStr(TextFullCompact), PyStr("not json") }

PageInit ==
    \E cols \in PageColumns : \E n \in 0..MaxPageRows :
    \E workers \in 1..MaxWorkers : \E cells \in [1..n -> ViewCells] :
        Uploaded(cols, [i \in 1..n |-> PageRow(cols, i, cells[i])], workers, 0)

PageSpec == PageInit /\ [][Next]_vars

(***************************************************************************)
(* parse_extraction_data over its inputs: Series.apply (line 180) calls it *)
(* on every cell of a response_json column, and the cells range over every *)
(* kind of value the function tells apart: None, NaN, a number, a list, a  *)
(* dict passed as it is, and texts that are blank, 'nan', undecodable, or  *)
(* decode to any document of the universe.                                 *)
(***************************************************************************)
ParseTexts ==
    { p[1] : p \in Decodable } \cup {"", " ", "\n", "nan", "NaN", "NAN"}
        \cup {"not json", "{\"mobile_number\""}

ParseInputs == JsonDocs \cup { PyStr(t) : t \in ParseTexts }

ParseInit ==
    \E n \in 1..MaxPageRows : \E cells \in [1..n -> ParseInputs] :
        Uploaded(<< "response_json" >>,
                 [i \in 1..n |-> PageRow(<< "response_json" >>, i, cells[i])],
                 1, 0)

ParseSpec == ParseInit /\ [][Render]_vars

(***************************************************************************)
(* Vocabulary of the properties.                                           *)
(***************************************************************************)
\* the positions of results_list that hold row i's cells (the sheet's rows
\* differ pairwise)
RecordsOf(i) ==
    { k \in 1..Len(results_list) :
        /\ results_list[k].name = rows[i].name
        /\ results_list[k].id = rows[i].id }

Finished(i) == i \in Tasks /\ future[i] = "finished"

\* row i's fetch ended in a transport error or a status outside 2xx
Failed(i) == Finished(i) /\ result[i].status_code \notin 200..299

ClaimedRetryable == {500, 502, 504}
IsRetryableAnswer(ev) == ev.kind = "response" /\ ev.status \in ClaimedRetryable
IsFinalAnswer(ev) == ev.kind = "response" /\ ev.status \notin ClaimedRetryable
IsTransportError(ev) == ev.kind = "error"
LastOf(h) == h[Len(h)]

\* the first k attempts of row i all met a retryable status
RetryablePrefix(i, k) ==
    /\ Len(history[i]) >= k
    /\ \A j \in 1..k : IsRetryableAnswer(history[i][j])

(***************************************************************************)
(* C1: when completion is reported, results_list holds as many merged      *)
(* records as the table has rows, whatever the rows' outcomes were.        *)
(***************************************************************************)
C1_OneRecordPerRowAtCompletion ==
    pc = "done" => Len(results_list) = Len(rows)

\* a finished batch of three rows with a 200, a 404 and a transport failure
C1_Witness ==
    /\ pc = "done"
    /\ Len(rows) = 3
    /\ \E a, b, c \in 1..Len(results_list) :
         /\ results_list[a].status_code = 200
         /\ results_list[b].status_code = 404
         /\ results_list[c].status_code = -1

(***************************************************************************)
(* C2: under fair scheduling every submitted row eventually has a merged   *)
(* record in results_list, and no row ever has more than one.              *)
(***************************************************************************)
C2_EveryRowEventuallyOnce ==
    /\ \A i \in 1..MaxRows :
         (i \in Tasks /\ future[i] # "unsubmitted")
             ~> (i \in Tasks /\ Cardinality(RecordsOf(i)) = 1)
    /\ [](\A i \in Tasks : Cardinality(RecordsOf(i)) <= 1)

\* every row of a three-row table has its record, and the first row's came
\* last: collection followed completion, not submission
C2_Witness ==
    /\ Len(rows) = 3
    /\ num_workers = 2
    /\ \A i \in Tasks : Cardinality(RecordsOf(i)) = 1
    /\ RecordsOf(1) = {3}

(***************************************************************************)
(* C3: once a row's fetch has ended in a transport error or a non-2xx      *)
(* status, every row is still fetched and collected: the batch goes on to  *)
(* a state where each row has met the endpoint and has its merged record,  *)
(* and no pending or running task is ever taken back.                      *)
(***************************************************************************)
C3_FailureDoesNotCancel ==
    /\ (\E i \in 1..MaxRows : Failed(i))
           ~> (\A j \in Tasks : Len(history[j]) >= 1 /\ Cardinality(RecordsOf(j)) = 1)
    /\ [][\A j \in Tasks :
            /\ future[j] = "pending" => future'[j] \in {"pending", "running"}
            /\ future[j] = "running" => future'[j] \in {"running", "finished"}
            /\ future[j] = "finished" => future'[j] = "finished"]_vars

\* a row has failed while another is still pending and a third is running
C3_Witness ==
    /\ \E i \in Tasks : Failed(i)
    /\ \E j \in Tasks : future[j] = "pending"
    /\ \E j \in Tasks : future[j] = "running"

(***************************************************************************)
(* C4: the fetch_data invocations that have started and not yet returned   *)
(* never number more than the configured workers.                          *)
(***************************************************************************)
C4_InFlightBound ==
    Cardinality(running) <= num_workers

\* the pool is saturated: more rows than workers, every worker busy and a
\* task waiting in the queue
C4_Witness ==
    /\ Len(rows) > num_workers
    /\ num_workers = 2
    /\ Cardinality(running) = num_workers
    /\ work_queue # << >>

(***************************************************************************)
(* C5: a merged record has status_code -1 exactly when its error is        *)
(* non-empty.                                                              *)
(***************************************************************************)
C5_ErrorIffSentinel ==
    \A k \in 1..Len(results_list) :
        (results_list[k].status_code = -1) <=> (results_list[k].error # "")

\* the list holds a record of each kind
C5_Witness ==
    \E a, b \in 1..Len(results_list) :
        /\ results_list[a].status_code = -1 /\ results_list[a].error # ""
        /\ results_list[b].status_code >= 0 /\ results_list[b].error = ""

(***************************************************************************)
(* C6: the placeholder 0 never is the status of a completed outcome: a     *)
(* finished fetch carries -1 or the status of the response it received,    *)
(* and so does every merged record.                                        *)
(***************************************************************************)
C6_NoPlaceholderStatus ==
    /\ \A i \in Tasks : future[i] = "finished" =>
         \/ result[i].status_code = -1
         \/ /\ LastOf(history[i]).kind = "response"
            /\ result[i].status_code = LastOf(history[i]).status
    /\ \A k \in 1..Len(results_list) :
         /\ results_list[k].status_code # 0
         /\ results_list[k].status_code \in
                {-1} \cup { ev.status : ev \in { e \in Endpoint : e.kind = "response" } }

\* a record of a received response and a record of a failed request
C6_Witness ==
    \E a, b \in 1..Len(results_list) :
        /\ results_list[a].status_code = 404
        /\ results_list[b].status_code = -1

(***************************************************************************)
(* C7: with a session built for n retries, a fetch that has met only       *)
(* retryable statuses (500, 502, 504), n of them at most, goes on to       *)
(* another attempt; and when the attempt after n retryable statuses meets  *)
(* a status that is not retryable, the fetch ends there, after n+1         *)
(* attempts, with that status as its status_code.                          *)
(***************************************************************************)
C7_RetryBound ==
    \A i \in Tasks :
        /\ (Len(history[i]) <= retries /\ RetryablePrefix(i, Len(history[i])))
               => future[i] # "finished"
        /\ ( /\ Len(history[i]) = retries + 1
             /\ RetryablePrefix(i, retries)
             /\ IsFinalAnswer(LastOf(history[i])) )
               => /\ future[i] = "finished"
                  /\ result[i].status_code = LastOf(history[i]).status
                  /\ result[i].error = ""

\* two retryable statuses, then 404, under a session built for two retries
C7_Witness ==
    \E i \in Tasks :
        /\ retries = 2
        /\ Len(history[i]) = 3
        /\ RetryablePrefix(i, 2)
        /\ history[i][1].status # history[i][2].status
        /\ LastOf(history[i]).status = 404
        /\ future[i] = "finished"
        /\ result[i].status_code = 404

(***************************************************************************)
(* C8: when every one of the n+1 attempts met a retryable status, the      *)
(* outcome carries the last response's status and an empty error.          *)
(***************************************************************************)
C8_ExhaustedKeepsStatus ==
    \A i \in Tasks :
        ( /\ future[i] = "finished"
          /\ Len(history[i]) = retries + 1
          /\ RetryablePrefix(i, retries + 1) )
            => /\ result[i].status_code = LastOf(history[i]).status
               /\ result[i].error = ""

(***************************************************************************)
(* C9 as stated: a first response whose status is not 500, 502 or 504      *)
(* ends the fetch: one attempt, and that status is the status_code.        *)
(***************************************************************************)
C9_Original ==
    \A i \in Tasks :
        (Len(history[i]) >= 1 /\ IsFinalAnswer(history[i][1]))
            => /\ Len(history[i]) = 1
               /\ future[i] = "finished"
               /\ result[i].status_code = history[i][1].status

\* a 413, 429 or 503 with a Retry-After header, met while retries are left
HonoursRetryAfter(ev) ==
    /\ ev.kind = "response"
    /\ ev.retry_after
    /\ ev.status \in {413, 429, 503}
    /\ retries >= 1

(***************************************************************************)
(* C9 as amended: a first response whose status is not 500, 502 or 504,    *)
(* and that is not a 413, 429 or 503 carrying Retry-After under a retry    *)
(* count of 1 or more, ends the fetch: one attempt, and that status is the *)
(* status_code.                                                            *)
(***************************************************************************)
C9_FinalStatusNotRetried ==
    \A i \in Tasks :
        ( /\ Len(history[i]) >= 1
          /\ IsFinalAnswer(history[i][1])
          /\ ~HonoursRetryAfter(history[i][1]) )
            => /\ Len(history[i]) = 1
               /\ future[i] = "finished"
               /\ result[i].status_code = history[i][1].status

\* a 404 on the first attempt of a session built for retries
C9_Witness ==
    \E i \in Tasks :
        /\ retries >= 1
        /\ history[i] = << Resp(404, FALSE, "not json") >>
        /\ future[i] = "finished"
        /\ result[i].status_code = 404

(***************************************************************************)
(* C10: a fetch makes at most retries+1 attempts; one that ends on a       *)
(* transport failure has status_code -1, a non-empty error and an empty    *)
(* response_json; and no outcome or merged record with status_code -1 has  *)
(* a non-empty response_json.                                              *)
(***************************************************************************)
C10_TransportFailureOutcome ==
    /\ \A i \in Tasks :
         /\ Len(history[i]) <= retries + 1
         /\ (future[i] = "finished" /\ IsTransportError(LastOf(history[i])))
               => /\ result[i].status_code = -1
                  /\ result[i].error # ""
                  /\ result[i].response_json = ""
         /\ (future[i] = "finished" /\ result[i].status_code = -1)
               => result[i].response_json = ""
    /\ \A k \in 1..Len(results_list) :
         results_list[k].status_code = -1 => results_list[k].response_json = ""

\* every attempt the budget allows failed at transport level, connect and
\* read failures mixed
C10_Witness ==
    \E i \in Tasks :
        /\ retries >= 1
        /\ future[i] = "finished"
        /\ Len(history[i]) = retries + 1
        /\ \A j \in 1..Len(history[i]) : IsTransportError(history[i][j])
        /\ \E j \in 1..Len(history[i]) : history[i][j].err # history[i][1].err
        /\ \E k \in 1..Len(results_list) : results_list[k].status_code = -1

(***************************************************************************)
(* C11: every merged record joins the cells of one row with the outcome of *)
(* the request made for that same row: its URL is built from that row's    *)
(* id and its status, body and error are those of that row's fetch, in     *)
(* whatever order the tasks complete and also for rows that share an id.   *)
(***************************************************************************)
C11_RecordJoinsOwnRow ==
    /\ \A i \in Tasks : future[i] \in {"running", "finished"} =>
         /\ result[i].id = rows[i].id
         /\ result[i].full_url = url_part_1 \o rows[i].id \o url_part_2
    /\ \A k \in 1..Len(results_list) :
         \E i \in yielded :
            /\ results_list[k].name = rows[i].name
            /\ results_list[k].id = rows[i].id
            /\ results_list[k].full_url = url_part_1 \o rows[i].id \o url_part_2
            /\ results_list[k].status_code = result[i].status_code
            /\ results_list[k].response_json = result[i].response_json
            /\ results_list[k].error = result[i].error

\* the two rows that share the id "7" ended differently and were collected
\* in the reverse of their submission order
C11_Witness ==
    /\ Len(results_list) >= 2
    /\ results_list[1].id = "7" /\ results_list[1].name = "b"
    /\ results_list[1].status_code = 200
    /\ results_list[2].id = "7" /\ results_list[2].name = "a"
    /\ results_list[2].status_code = -1

(***************************************************************************)
(* C12: the progress updates shown so far are one per collected task: the  *)
(* k-th carries completed_count = k and the table's row count, there are   *)
(* as many updates as merged records and as the counter says, no update    *)
(* exceeds the total, and when completion is reported the last update of a *)
(* non-empty table carries completed_count = total.                        *)
(***************************************************************************)
C12_ProgressUpdates ==
    /\ Len(status_text) = Len(results_list)
    /\ pc \in {"collect", "done"} => completed_count = Len(status_text)
    /\ \A k \in 1..Len(status_text) :
         /\ status_text[k] = << k, total_rows >>
         /\ k <= total_rows
    /\ pc \in {"collect", "done"} /\ status_text # << >> =>
         progress_bar \in { status_text[Len(status_text)], << 1, 1 >> }
    /\ pc = "done" /\ total_rows > 0 =>
         status_text[Len(status_text)] = << total_rows, total_rows >>

\* completion is reported for a table of MaxRows rows, one of which failed
C12_Witness ==
    /\ pc = "done"
    /\ Len(status_text) = MaxRows
    /\ status_text[MaxRows] = << MaxRows, MaxRows >>
    /\ \E k \in 1..Len(results_list) : results_list[k].status_code = -1

(***************************************************************************)
(* C13: in the final table the columns are id, status_code,                *)
(* main_disposition, sub_disposition, updated_at, mobile_number, full_url, *)
(* error, response_json and then the passthrough input columns in their    *)
(* input order; mobile_number precedes full_url and every passthrough      *)
(* column.                                                                 *)
(***************************************************************************)
ClaimedKeyOrder ==
    << "id", "status_code", "main_disposition", "sub_disposition",
       "updated_at", "mobile_number", "full_url", "error", "response_json" >>

IndexOf(seq, c) == CHOOSE k \in 1..Len(seq) : seq[k] = c

C13_KeyOrder ==
    pc = "done" /\ results_list # << >> =>
        /\ result_df =
             ClaimedKeyOrder
                \o SelectSeq(columns, LAMBDA c : c \notin Range(ClaimedKeyOrder))
        /\ \A c \in Range(columns) \ Range(ClaimedKeyOrder) :
             IndexOf(result_df, "mobile_number") < IndexOf(result_df, c)
        /\ IndexOf(result_df, "mobile_number") < IndexOf(result_df, "full_url")

(***************************************************************************)
(* C14, as stated: every input column other than id, whatever its name,    *)
(* is in the row's merged record with the value it had in the input row.   *)
(***************************************************************************)
C14_Original ==
    \A k \in 1..Len(results_list) :
        \E i \in yielded :
            /\ results_list[k].id = rows[i].id
            /\ \A c \in Range(columns) \ {"id"} :
                 /\ c \in DOMAIN results_list[k]
                 /\ results_list[k][c] = rows[i][c]

(***************************************************************************)
(* C14, amended: every input column whose name is neither a key of the     *)
(* request's result (id, full_url, status_code, response_json, error) nor  *)
(* a parsed field (mobile_number, main_disposition, sub_disposition,       *)
(* updated_at) is in the row's merged record with the value it had in the  *)
(* input row.                                                              *)
(***************************************************************************)
C14_PassthroughKept ==
    \A k \in 1..Len(results_list) :
        \E i \in yielded :
            /\ results_list[k].id = rows[i].id
            /\ \A c \in Range(columns) \ (Range(ResultKeys) \cup Range(ParsedKeys)) :
                 /\ c \in DOMAIN results_list[k]
                 /\ results_list[k][c] = rows[i][c]

\* a record of the table whose mobile_number and error columns collide: the
\* name cell is kept while the error cell is not
C14_Witness ==
    /\ columns = << "name", "mobile_number", "error", "id" >>
    /\ Len(results_list) = 2
    /\ results_list[1].name = "b"
    /\ results_list[2].name = "a"
    /\ results_list[1].error # "old error"

(***************************************************************************)
(* C15: in a merged record every key of the request's result holds the     *)
(* result's value and every parsed field holds the parsed value, also when *)
(* the input row has a column of that name.                                *)
(***************************************************************************)
C15_OutcomeWins ==
    \A k \in 1..Len(results_list) :
        \E i \in yielded :
            /\ \A c \in Range(ResultKeys) :
                 /\ c \in DOMAIN results_list[k]
                 /\ results_list[k][c] = result[i][c]
            /\ \A c \in Range(ParsedKeys) :
                 /\ c \in DOMAIN results_list[k]
                 /\ results_list[k][c] = parsed_of[result[i].response_json][c]

\* the input row had other values under error, mobile_number, status_code
\* and main_disposition than the record holds
C15_Witness ==
    \/ /\ "error" \in Range(columns) /\ "mobile_number" \in Range(columns)
       /\ \E k \in 1..Len(results_list) :
            /\ results_list[k].status_code = -1
            /\ results_list[k].error # "old error"
            /\ results_list[k].mobile_number = PyNone
    \/ /\ "status_code" \in Range(columns) /\ "main_disposition" \in Range(columns)
       /\ \E k \in 1..Len(results_list) :
            /\ results_list[k].status_code = 200
            /\ results_list[k].main_disposition = PyStr("A")
            /\ results_list[k].full_url # "ftp://old"

\* nothing of a batch exists: no task was submitted, no thread started, no
\* HTTP attempt made, no record merged
NoBatch ==
    /\ pc \in {"loaded", "viewer", "no_id", "ready"}
    /\ \A i \in Tasks : future[i] = "unsubmitted" /\ history[i] = << >>
    /\ work_queue = << >>
    /\ num_threads = 0
    /\ results_list = << >>
    /\ status_text = << >>

(***************************************************************************)
(* C16, as stated: for a table without an id column no batch ever begins   *)
(* and, once the page is rendered, the missing-id error has been reported  *)
(* exactly once.                                                           *)
(***************************************************************************)
C16_Original ==
    "id" \notin Range(columns) =>
        /\ NoBatch
        /\ pc # "ready"
        /\ errors <= 1
        /\ pc # "loaded" => errors = 1

(***************************************************************************)
(* C16, amended: for a table without an id column no batch ever begins;    *)
(* when the table has no response_json column either, the page ends in the *)
(* missing-id error, reported exactly once; a table with a response_json   *)
(* column is shown in viewer mode and no error is reported.                *)
(***************************************************************************)
C16_NoIdNoBatch ==
    "id" \notin Range(columns) =>
        /\ NoBatch
        /\ pc # "ready"
        /\ errors <= 1
        /\ pc # "loaded" =>
             IF "response_json" \in Range(columns)
             THEN pc = "viewer" /\ errors = 0
             ELSE pc = "no_id" /\ errors = 1

\* the page was rendered for a two-row table without id and response_json
C16_Witness ==
    /\ pc = "no_id"
    /\ errors = 1
    /\ columns = << "name", "error" >>
    /\ Len(rows) = MaxPageRows

(***************************************************************************)
(* C20: a table with a response_json column is shown in viewer mode and    *)
(* nothing of a batch ever exists for it, also when it has an id column;   *)
(* whenever anything of a batch exists, the table has an id column and no  *)
(* response_json column and the button was pressed.                        *)
(***************************************************************************)
C20_ViewerWins ==
    /\ "response_json" \in Range(columns) =>
         /\ NoBatch
         /\ pc \in {"loaded", "viewer"}
    /\ pc = "viewer" <=> "response_json" \in Range(columns) /\ pc # "loaded"
    /\ ~NoBatch =>
         /\ "response_json" \notin Range(columns)
         /\ "id" \in Range(columns)
         /\ pc \in {"submit", "collect", "done"}
    /\ pc = "ready" =>
         "response_json" \notin Range(columns) /\ "id" \in Range(columns)

\* viewer mode for a table that has an id column as well
C20_Witness ==
    /\ pc = "viewer"
    /\ "id" \in Range(columns)
    /\ Len(parsed_df) = MaxPageRows
    /\ parsed_df[1].mobile_number = PyStr("555")
    /\ parsed_df[2] = ParsedDefaults

\* the mapping an input is or decodes to, if any
IsMapping(x) ==
    \/ isdict(x)
    \/ /\ isstr(x)
       /\ json_loads(x.v).ok
       /\ isdict(json_loads(x.v).val)
MappingOf(x) == IF isdict(x) THEN x ELSE json_loads(x.v).val

HasKey(d, key) == \E j \in 1..Len(d.v) : d.v[j][1] = key
ValueOf(d, key) == d.v[CHOOSE j \in 1..Len(d.v) : d.v[j][1] = key][2]
\* the value under key, None when the key is missing
FieldOf(d, key) == IF HasKey(d, key) THEN ValueOf(d, key) ELSE PyNone

(***************************************************************************)
(* C17: parse_extraction_data returns for every input: a dict of exactly   *)
(* the four fields.  For an input that is not a mapping and does not       *)
(* decode to one, all four are None; for a mapping, mobile_number and      *)
(* updated_at are the mapping's mobile_number and conversation_time, each  *)
(* None exactly when its key is missing or null.                           *)
(***************************************************************************)
C17_ParseTotal ==
    pc = "viewer" =>
        /\ Len(parsed_df) = Len(rows)
        /\ \A i \in 1..Len(rows) :
             LET json_input == rows[i].response_json
                 parsed == parsed_df[i]
             IN  /\ DOMAIN parsed = Range(ParsedKeys)
                 /\ ~IsMapping(json_input) => parsed = ParsedDefaults
                 /\ IsMapping(json_input) =>
                      /\ parsed.mobile_number =
                            FieldOf(MappingOf(json_input), "mobile_number")
                      /\ parsed.updated_at =
                            FieldOf(MappingOf(json_input), "conversation_time")

\* the text of JSON null, and a dict passed as it is that has one of the
\* two top-level fields
C17_Witness ==
    /\ pc = "viewer"
    /\ Len(rows) = 2
    /\ rows[1].response_json = PyStr("null")
    /\ parsed_df[1] = ParsedDefaults
    /\ rows[2].response_json = DocNoExtraction
    /\ parsed_df[2].mobile_number = PyStr("555")
    /\ parsed_df[2].updated_at = PyNone

(***************************************************************************)
(* C18: for a mapping, main_disposition and sub_disposition are None when  *)
(* 'extraction' is missing or not a mapping or its 'extracted_data' is     *)
(* missing or not a mapping, while mobile_number and updated_at are still  *)
(* the top-level mobile_number and conversation_time; otherwise they are   *)
(* the values of the same-named keys of extraction.extracted_data.         *)
(***************************************************************************)
HasClassificationBlock(d) ==
    /\ HasKey(d, "extraction")
    /\ isdict(ValueOf(d, "extraction"))
    /\ HasKey(ValueOf(d, "extraction"), "extracted_data")
    /\ isdict(ValueOf(ValueOf(d, "extraction"), "extracted_data"))
ClassificationBlock(d) == ValueOf(ValueOf(d, "extraction"), "extracted_data")

C18_ClassificationPath ==
    pc = "viewer" =>
        \A i \in 1..Len(rows) :
            IsMapping(rows[i].response_json) =>
                LET d == MappingOf(rows[i].response_json)
                    parsed == parsed_df[i]
                IN  /\ DOMAIN parsed = Range(ParsedKeys)
                    /\ parsed.mobile_number = FieldOf(d, "mobile_number")
                    /\ parsed.updated_at = FieldOf(d, "conversation_time")
                    /\ IF HasClassificationBlock(d)
                       THEN /\ parsed.main_disposition =
                                  FieldOf(ClassificationBlock(d), "main_disposition")
                            /\ parsed.sub_disposition =
                                  FieldOf(ClassificationBlock(d), "sub_disposition")
                       ELSE /\ parsed.main_disposition = PyNone
                            /\ parsed.sub_disposition = PyNone

\* a text whose classification keys are everywhere but at the path, and a
\* dict whose block has one of the two keys
C18_Witness ==
    /\ pc = "viewer"
    /\ Len(rows) = 2
    /\ rows[1].response_json = PyStr(json_dumps(DocMisplaced))
    /\ parsed_df[1].main_disposition = PyNone
    /\ parsed_df[1].updated_at = PyStr("2024-01-01")
    /\ rows[2].response_json = DocOnlyMain
    /\ parsed_df[2].main_disposition = PyStr("A")
    /\ parsed_df[2].sub_disposition = PyNone

(***************************************************************************)
(* C19: results_list and completed_count are written by the main thread    *)
(* only.  A step that changes either is a step of the main thread: it      *)
(* changes nothing a worker thread writes (the futures, the result dicts,  *)
(* the Retry objects, the attempts, the work queue), and in the collecting *)
(* loop it appends exactly one record and adds one to the counter.  No     *)
(* append is lost or duplicated: the list holds one record per future the  *)
(* loop was handed.                                                        *)
(***************************************************************************)
WorkerState == << future, result, retry, history, work_queue, num_threads >>

C19_SingleCollector ==
    /\ [](Len(results_list) = Cardinality(yielded))
    /\ [][ (results_list' # results_list \/ completed_count' # completed_count) =>
             /\ WorkerState' = WorkerState
             /\ pc \in {"ready", "submit", "collect"}
             /\ pc = "collect" =>
                  /\ Len(results_list') = Len(results_list) + 1
                  /\ SubSeq(results_list', 1, Len(results_list)) = results_list
                  /\ completed_count' = completed_count + 1
                  /\ Cardinality(yielded') = Cardinality(yielded) + 1 ]_vars

\* a record has been appended while two worker threads are inside fetch_data
C19_Witness ==
    /\ pc = "collect"
    /\ Len(results_list) = 1
    /\ completed_count = 1
    /\ Cardinality(running) = 2
    /\ results_list[1].status_code = -1

====
